---- MODULE Spec2Model ----
(***************************************************************************)
(* Model of the AI music assistant backend (kkphamm/spotify-bot):          *)
(*   - backend/intent_engine.py : IntentEngine.parse and its two paths     *)
(*   - backend/main.py          : the /ask, /play, /play-track and         *)
(*                                /connect-playlist handlers               *)
(*   - backend/spotify_client.py: the playback operations                  *)
(* Text is modelled as a sequence of one-character strings, so that        *)
(* lower(), strip(), split(), replace(), substring tests and the regular   *)
(* expressions of the keyword parser are computed, not assumed.            *)
(***************************************************************************)
EXTENDS Integers, Sequences, FiniteSets, TLC

VARIABLES
    pc,             \* position of the request being served
    connected,      \* rows of the ConnectedPlaylist table, in insertion order
    message,        \* body.message of the request
    llm,            \* what the language-model call did for this request
    intent,         \* the dict returned by IntentEngine.parse
    query,          \* the resolved search query of /play
    playlist,       \* the ConnectedPlaylist row /play matched, if any
    found,          \* the first search result as the catalog returned it
    results,        \* /play's `results` list (scored, later widened)
    playlist_uris,  \* /play's `playlist_uris`
    is_diverse,     \* /play's `is_diverse`
    calls,          \* collaborator calls made by the request, in order
    resp,           \* the HTTP outcome of the request
    mood_requests,  \* rows of the MoodRequest table written by the request
    recommender,    \* a Recommender: vectorizer, scaler, _profile, _fitted
    rec_call,       \* the last call made on the Recommender and its outcome
    built_from,     \* the top tracks of the last build_profile that returned
    voice           \* a call of record_until_silence: its locals, the
                    \* chunks read from the stream, the file, the result

\* the Recommender and its caller
rvars == <<recommender, rec_call, built_from>>

\* the request being served and the tables
svars == <<pc, connected, message, llm, intent, query, playlist, found,
           results, playlist_uris, is_diverse, calls, resp, mood_requests>>

\* the voice client
vvars == <<voice>>

vars == <<svars, rvars, vvars>>

-----------------------------------------------------------------------------
(* Bounds of the model.                                                    *)

\* phrases per utterance sent to /ask
MaxWords == 2
\* top tracks handed to Recommender.build_profile
MaxTop == 2
\* candidates handed to Recommender.rank_candidates
MaxCandidates == 2
\* tracks per catalog search result
MaxResults == 2
\* tracks the second, widening search of /play adds
MaxExtra == 1
\* rows of the ConnectedPlaylist table
MaxPlaylists == 1
\* chunks record_until_silence reads before the cap: max_chunks, 937 with
\* MAX_RECORD_SECS = 30, scaled down
MaxChunks == 4
\* the length of the pre-roll buffer, 8 in voice_client.py, scaled down
PREROLL_CHUNKS == 2

-----------------------------------------------------------------------------
(* Text: Python str operations on sequences of characters.                 *)

UpperLetters == <<"A","B","C","D","E","F","G","H","I","J","K","L","M",
                  "N","O","P","Q","R","S","T","U","V","W","X","Y","Z">>
LowerLetters == <<"a","b","c","d","e","f","g","h","i","j","k","l","m",
                  "n","o","p","q","r","s","t","u","v","w","x","y","z">>
Digits == {"0","1","2","3","4","5","6","7","8","9"}

UpperSet == {UpperLetters[i] : i \in 1..26}
LowerSet == {LowerLetters[i] : i \in 1..26}
LowerOf  == [c \in UpperSet |->
                LowerLetters[CHOOSE i \in 1..26 : UpperLetters[i] = c]]

IsUpper(c) == c \in UpperSet
IsLower(c) == c \in LowerSet
\* str.lower() on one character
LowerChar(c) == IF IsUpper(c) THEN LowerOf[c] ELSE c
\* the regular-expression class \w
IsWordChar(c) == IsUpper(c) \/ IsLower(c) \/ c \in Digits \/ c = "_"
\* whitespace: what str.strip(), str.split() and \s take out
IsSpace(c) == c = " "

\* str.lower()
Lower(s) == [i \in 1..Len(s) |-> LowerChar(s[i])]

\* str.strip()
Strip(s) ==
    LET idx == {i \in 1..Len(s) : ~IsSpace(s[i])}
    IN  IF idx = {} THEN <<>>
        ELSE LET lo == CHOOSE i \in idx : \A j \in idx : i <= j
                 hi == CHOOSE i \in idx : \A j \in idx : i >= j
             IN  SubSeq(s, lo, hi)

\* set(str.split()): the maximal runs of non-whitespace characters
Words(s) ==
    {SubSeq(s, i, j) : <<i, j>> \in
        {p \in (1..Len(s)) \X (1..Len(s)) :
            /\ p[1] <= p[2]
            /\ \A k \in p[1]..p[2] : ~IsSpace(s[k])
            /\ (p[1] = 1 \/ IsSpace(s[p[1] - 1]))
            /\ (p[2] = Len(s) \/ IsSpace(s[p[2] + 1]))}}

\* a in b, for strings
IsSubstring(a, b) ==
    \E i \in 0..(Len(b) - Len(a)) : SubSeq(b, i + 1, i + Len(a)) = a

\* str.replace("&", "and")
RECURSIVE ReplaceAmp(_)
ReplaceAmp(s) ==
    IF s = <<>> THEN <<>>
    ELSE (IF Head(s) = "&" THEN <<"a","n","d">> ELSE <<Head(s)>>)
         \o ReplaceAmp(Tail(s))

\* " ".join(parts), parts a sequence of strings
RECURSIVE Join(_)
Join(parts) ==
    IF parts = <<>> THEN <<>>
    ELSE IF Len(parts) = 1 THEN parts[1]
    ELSE parts[1] \o <<" ">> \o Join(Tail(parts))

-----------------------------------------------------------------------------
(* Regular expressions of the keyword parser (all compiled with re.I).     *)

\* the pattern text `w` matches s at index i, ignoring case
MatchesAt(s, i, w) ==
    /\ i >= 1
    /\ i + Len(w) - 1 <= Len(s)
    /\ \A k \in 1..Len(w) : LowerChar(s[i + k - 1]) = LowerChar(w[k])

\* \b between s[p] and s[p+1] (p = 0 is the start, p = Len(s) the end)
WordBoundary(s, p) ==
    LET left  == p >= 1 /\ IsWordChar(s[p])
        right == p + 1 <= Len(s) /\ IsWordChar(s[p + 1])
    IN  left # right

\* re.compile(r"\b(alt1|alt2|...)\b", re.I).search(s) is not None
SearchWord(alts, s) ==
    \E w \in alts : \E i \in 1..Len(s) :
        /\ MatchesAt(s, i, w)
        /\ WordBoundary(s, i - 1)
        /\ WordBoundary(s, i + Len(w) - 1)

-----------------------------------------------------------------------------
(* backend/intent_engine.py: the trigger patterns.                         *)

PLAY_TRIGGERS ==
    {<<"p","l","a","y">>, <<"p","u","t"," ","o","n">>,
     <<"s","t","a","r","t">>, <<"l","i","s","t","e","n"," ","t","o">>,
     <<"q","u","e","u","e">>}
SEARCH_TRIGGERS ==
    {<<"s","e","a","r","c","h">>, <<"f","i","n","d">>,
     <<"l","o","o","k"," ","u","p">>, <<"s","h","o","w"," ","m","e">>,
     <<"w","h","a","t"," ","i","s">>}
RECOMMEND_TRIGGERS ==
    {<<"r","e","c","o","m","m","e","n","d">>,
     <<"s","u","g","g","e","s","t">>,
     <<"s","i","m","i","l","a","r"," ","t","o">>, <<"l","i","k","e">>,
     <<"v","i","b","e">>}
DEVICES_TRIGGERS ==
    {<<"d","e","v","i","c","e">>, <<"d","e","v","i","c","e","s">>,
     <<"s","p","e","a","k","e","r">>, <<"p","l","a","y","e","r">>,
     <<"w","h","e","r","e">>}
USER_TRIGGERS ==
    {<<"w","h","o"," ","a","m"," ","i">>,
     <<"l","o","g","g","e","d"," ","i","n">>,
     <<"m","y"," ","a","c","c","o","u","n","t">>,
     <<"m","y"," ","p","r","o","f","i","l","e">>}
\* the alternatives of _STRIP_PREFIX, each followed by \s+ in the pattern
STRIP_PREFIX ==
    {<<"p","l","a","y">>, <<"p","u","t"," ","o","n">>,
     <<"s","t","a","r","t">>, <<"l","i","s","t","e","n"," ","t","o">>,
     <<"q","u","e","u","e">>, <<"s","e","a","r","c","h">>,
     <<"f","i","n","d">>, <<"l","o","o","k"," ","u","p">>,
     <<"s","h","o","w"," ","m","e">>,
     <<"r","e","c","o","m","m","e","n","d">>,
     <<"s","u","g","g","e","s","t">>,
     <<"s","o","m","e","t","h","i","n","g"," ","l","i","k","e">>,
     <<"s","o","n","g","s"," ","l","i","k","e">>,
     <<"m","u","s","i","c"," ","l","i","k","e">>}
\* the alternatives of the mood/genre pattern ("vibes?" is vibe | vibes)
MOOD_TOKENS ==
    {<<"l","o","f","i">>, <<"l","o","-","f","i">>,
     <<"c","h","i","l","l">>, <<"v","i","b","e">>,
     <<"v","i","b","e","s">>, <<"s","t","u","d","y">>,
     <<"f","o","c","u","s">>, <<"a","m","b","i","e","n","t">>,
     <<"b","a","c","k","g","r","o","u","n","d">>}

\* the `action` enum of INTENT_TOOL
Actions == {"play_music", "search_music", "get_recommendations",
            "get_current_user", "list_devices", "unknown"}

-----------------------------------------------------------------------------
(* Python dicts are functions from keys; a missing key is outside DOMAIN.  *)

EmptyDict == [k \in {} |-> TRUE]
\* d.get(k, default)
Get(d, k, default) == IF k \in DOMAIN d THEN d[k] ELSE default
\* d[k] = v
SetItem(d, k, v) == [x \in (DOMAIN d) \cup {k} |-> IF x = k THEN v ELSE d[x]]
\* d.setdefault(k, v)
SetDefault(d, k, v) == IF k \in DOMAIN d THEN d ELSE SetItem(d, k, v)

Returned(v) == [raised |-> FALSE, value |-> v]
Raised(e)   == [raised |-> TRUE, exc |-> e]

-----------------------------------------------------------------------------
(* backend/intent_engine.py: IntentEngine.                                 *)

UnknownIntent == [action |-> "unknown", query |-> <<>>, extras |-> EmptyDict]

\* s without its leading whitespace (what a trailing \s+ of a prefix eats)
RECURSIVE DropLeadingSpace(_)
DropLeadingSpace(s) ==
    IF s # <<>> /\ IsSpace(Head(s)) THEN DropLeadingSpace(Tail(s)) ELSE s

\* _STRIP_PREFIX.sub("", text): the pattern is anchored at the start and
\* needs at least one whitespace character after the action words
StripPrefix(text) ==
    LET hits == {w \in STRIP_PREFIX :
                    /\ MatchesAt(text, 1, w)
                    /\ Len(text) > Len(w)
                    /\ IsSpace(text[Len(w) + 1])}
    IN  IF hits = {} THEN text
        ELSE LET w == CHOOSE x \in hits : TRUE
             IN  DropLeadingSpace(SubSeq(text, Len(w) + 1, Len(text)))

\* mutant of _parse_with_keywords: the device rule is tested before the
\* identity rule
_parse_with_keywords_DevicesFirst(user_input) ==
    LET text   == Strip(user_input)
        q      == Strip(StripPrefix(text))
        extras == IF SearchWord(MOOD_TOKENS, text)
                  THEN [is_mood_or_genre |-> TRUE]
                  ELSE EmptyDict
    IN  IF SearchWord(DEVICES_TRIGGERS, text)
        THEN [action |-> "list_devices", query |-> <<>>, extras |-> EmptyDict]
        ELSE IF SearchWord(USER_TRIGGERS, text)
        THEN [action |-> "get_current_user", query |-> <<>>, extras |-> EmptyDict]
        ELSE IF SearchWord(RECOMMEND_TRIGGERS, text)
        THEN [action |-> "get_recommendations", query |-> q, extras |-> extras]
        ELSE IF SearchWord(SEARCH_TRIGGERS, text)
        THEN [action |-> "search_music", query |-> q, extras |-> extras]
        ELSE IF SearchWord(PLAY_TRIGGERS, text)
        THEN [action |-> "play_music", query |-> q, extras |-> extras]
        ELSE [action |-> "play_music", query |-> text, extras |-> extras]

_parse_with_keywords(user_input) ==
    LET text   == Strip(user_input)
        q      == Strip(StripPrefix(text))
        extras == IF SearchWord(MOOD_TOKENS, text)
                  THEN [is_mood_or_genre |-> TRUE]
                  ELSE EmptyDict
    IN  IF SearchWord(USER_TRIGGERS, text)
        THEN [action |-> "get_current_user", query |-> <<>>, extras |-> EmptyDict]
        ELSE IF SearchWord(DEVICES_TRIGGERS, text)
        THEN [action |-> "list_devices", query |-> <<>>, extras |-> EmptyDict]
        ELSE IF SearchWord(RECOMMEND_TRIGGERS, text)
        THEN [action |-> "get_recommendations", query |-> q, extras |-> extras]
        ELSE IF SearchWord(SEARCH_TRIGGERS, text)
        THEN [action |-> "search_music", query |-> q, extras |-> extras]
        ELSE IF SearchWord(PLAY_TRIGGERS, text)
        THEN [action |-> "play_music", query |-> q, extras |-> extras]
        ELSE [action |-> "play_music", query |-> text, extras |-> extras]

\* The language-model call of _parse_with_openai, by what it does:
\*   kind "APIStatusError"     the service answered with an error status
\*                             (quota 429, unavailable 5xx)
\*   kind "APIConnectionError" the service could not be reached / timed out
\*   kind "Exception"          any other exception
\*   kind "no_tool_calls"      a message without tool calls
\*   kind "tool_calls"         a tool call whose arguments text is
\*        json "invalid"       not JSON (json.loads raises JSONDecodeError)
\*        json "array"         JSON, but not an object
\*        json "object"        a JSON object, `value`
_parse_with_openai(user_input, o) ==
    IF o.kind \in {"APIStatusError", "APIConnectionError", "Exception"}
    THEN Raised(o.kind)
    ELSE IF o.kind = "no_tool_calls"
    THEN Returned(UnknownIntent)
    ELSE IF o.json = "invalid"
    THEN Returned(UnknownIntent)
    ELSE IF o.json = "array"
    THEN Raised("AttributeError")      \* list has no setdefault
    ELSE Returned(SetDefault(o.value, "extras", EmptyDict))

\* except APIStatusError: the only class that selects the keyword fallback
CaughtByParse(exc) == exc = "APIStatusError"

parse(user_input, o) ==
    LET r == _parse_with_openai(user_input, o)
    IN  IF ~r.raised
        THEN Returned(SetItem(r.value, "source", "openai"))
        ELSE IF CaughtByParse(r.exc)
        THEN Returned(SetItem(_parse_with_keywords(user_input),
                              "source", "fallback"))
        ELSE r

-----------------------------------------------------------------------------
(* Inputs of the requests.                                                 *)

\* building blocks of utterances: action words of every trigger family, an
\* identity question, a device word, a mood word and an artist name
Phrases ==
    {<<"p","l","a","y">>, <<"P","u","t"," ","O","n">>,
     <<"f","i","n","d">>, <<"s","u","g","g","e","s","t">>,
     <<"l","o","f","i">>, <<"w","h","o"," ","a","m"," ","i">>,
     <<"d","e","v","i","c","e">>, <<"S","i","a">>}

\* utterances: up to MaxWords phrases separated by one space, as typed or
\* with surrounding whitespace
Utterances ==
    LET seqs == UNION {[1..n -> Phrases] : n \in 0..MaxWords}
    IN  {Join(ps) : ps \in seqs} \cup
        {<<" ">> \o Join(ps) \o <<" ">> : ps \in seqs}

\* the `query` values the language model puts in its tool call
PrimaryQueries == {<<>>, <<"S","i","a">>, <<" ","l","o","f","i">>,
                   <<"n","a","s">>}

\* the `extras` of a tool call: the key left out, {}, or the mood flag
ExtrasChoices == {"absent", "empty", "mood", "not_mood"}

IntentObject(a, q, e) ==
    IF e = "absent" THEN [action |-> a, query |-> q]
    ELSE [action |-> a, query |-> q,
          extras |-> IF e = "empty" THEN EmptyDict
                     ELSE [is_mood_or_genre |-> (e = "mood")]]

\* a JSON object that lacks the required `action`
ObjectWithoutAction == [query |-> <<"S","i","a">>]

\* JSON objects that have the structure the tool schema requires
IntentObjects ==
    {IntentObject(a, q, e) : a \in Actions, q \in PrimaryQueries,
                             e \in ExtrasChoices}

LLMOutcomes ==
    {[kind |-> k] : k \in {"APIStatusError", "APIConnectionError",
                           "Exception", "no_tool_calls"}}
    \cup {[kind |-> "tool_calls", json |-> j] : j \in {"invalid", "array"}}
    \cup {[kind |-> "tool_calls", json |-> "object", value |-> v] :
            v \in IntentObjects \cup {ObjectWithoutAction}}

-----------------------------------------------------------------------------
(* The catalog: tracks in the shape SpotifyClient._format_track gives them. *)
(* `popularity` is a key only when the catalog reports one; artist_uris    *)
(* holds the uris of the artists that carry one.                           *)

Sia == <<"S","i","a">>
Nas == <<"N","a","s">>

\* the track objects of the Spotify Web API the searches return; an artist
\* entry carries its name and, mostly, its uri
RawTracks ==
    {[id |-> "t1", name |-> <<"O","n","e">>, uri |-> "spotify:track:1",
      artists |-> <<[name |-> Sia, uri |-> "spotify:artist:sia"]>>,
      popularity |-> 50],
     [id |-> "t2", name |-> <<"S","i","a">>, uri |-> "spotify:track:2",
      artists |-> <<[name |-> Nas, uri |-> "spotify:artist:nas"]>>,
      popularity |-> 50],
     \* the first artist carries no uri, and no popularity is reported
     [id |-> "t3", name |-> <<"S","i","a">>, uri |-> "spotify:track:3",
      artists |-> <<[name |-> Nas, uri |-> "None"],
                    [name |-> Sia, uri |-> "spotify:artist:sia"]>>],
     \* neither the track nor its artist carries a uri
     [id |-> "t4", name |-> <<"O","n","e">>, uri |-> "None",
      artists |-> <<[name |-> Nas, uri |-> "None"]>>,
      popularity |-> 50]}
\* SpotifyClient._format_track: the names of all artists, and the uris of
\* those that carry one
_format_track(track) ==
    LET with_uri == SelectSeq(track.artists, LAMBDA a : a.uri # "None")
        result == [id |-> track.id, name |-> track.name, uri |-> track.uri,
                   artists |-> [i \in 1..Len(track.artists) |->
                                  track.artists[i].name],
                   artist_uris |-> [i \in 1..Len(with_uri) |->
                                      with_uri[i].uri]]
    IN  IF "popularity" \in DOMAIN track
        THEN SetItem(result, "popularity", track.popularity)
        ELSE result

TrackPool == {_format_track(track) : track \in RawTracks}

\* what a catalog search can return: up to n tracks, in any order, with
\* repetitions
TrackLists(n) == UNION {[1..k -> TrackPool] : k \in 0..n}

Fault == [fault |-> TRUE]
Found(items) == [fault |-> FALSE, items |-> items]

-----------------------------------------------------------------------------
(* backend/spotify_client.py: playback operations.  `fault` says where the *)
(* Spotify Web API fails during the operation: "none", "start_playback" or *)
(* "shuffle".  Each result tells what was handed to start_playback (`sent`,*)
(* <<>> when playback was not started) and the last shuffle state asked    *)
(* for (`shuffled`, "none" when shuffle was not called).                   *)

TransportFaults == {"none", "start_playback", "shuffle"}

Outcome(fault, sent, shuffle_state, ctx) ==
    IF fault = "start_playback"
    THEN [raised |-> TRUE, exc |-> "SpotifyException",
          sent |-> <<>>, shuffled |-> "none"]
    ELSE IF fault = "shuffle"
    THEN [raised |-> TRUE, exc |-> "SpotifyException",
          sent |-> sent, shuffled |-> "none"]
    ELSE [raised |-> FALSE, value |-> ctx,
          sent |-> sent, shuffled |-> shuffle_state]

\* play_uri: `meta` is the outcome of the track metadata lookup
SpotifyClient_play_uri(uri, meta, fault) ==
    Outcome(fault,
            IF meta.fault \/ meta.album_uri = "None"
            THEN <<uri>> ELSE <<meta.album_uri, uri>>,
            "on",
            [mode |-> "track", shuffle |-> TRUE])

\* play_track: `recs` is the outcome of the recommendations lookup
SpotifyClient_play_track(track, recs, fault) ==
    LET uri      == track.uri
        uris     == IF uri # "None" THEN <<uri>> ELSE <<>>
        rec_uris == IF recs.fault THEN <<>>
                    ELSE SelectSeq(recs.items,
                                   LAMBDA u : u # "None" /\ u # uri)
    IN  Outcome(fault, uris \o rec_uris, "off",
                [mode |-> "track", shuffle |-> FALSE])

SpotifyClient_play_artist(track, fault) ==
    LET artist_uri == IF track.artist_uris # <<>>
                      THEN track.artist_uris[1] ELSE "None"
    IN  IF artist_uri = "None"
        THEN [raised |-> TRUE, exc |-> "ValueError",
              sent |-> <<>>, shuffled |-> "none"]
        ELSE Outcome(fault, <<artist_uri>>, "on",
                     [mode |-> "artist", artist_uri |-> artist_uri,
                      shuffle |-> TRUE])

\* the set of artist names of a list of tracks
ArtistsOf(tracks) ==
    UNION {{t.artists[i] : i \in 1..Len(t.artists)} :
             t \in {tracks[j] : j \in 1..Len(tracks)}}

\* play_multi_track: `by_uri` tells a list of uris from a list of tracks
SpotifyClient_play_multi_track(tracks, by_uri, fault) ==
    LET uris == IF by_uri
                THEN SelectSeq(tracks, LAMBDA u : u # "None")
                ELSE LET with_uri == SelectSeq(tracks,
                                        LAMBDA t : t.uri # "None")
                     IN  [i \in 1..Len(with_uri) |-> with_uri[i].uri]
        artists == IF by_uri THEN {} ELSE ArtistsOf(tracks)
        ctx == [mode |-> "multi", shuffle |-> TRUE,
                track_count |-> Len(uris), artists |-> artists]
    IN  IF uris = <<>>
        THEN [raised |-> FALSE, value |-> ctx,
              sent |-> <<>>, shuffled |-> "none"]
        ELSE Outcome(fault, uris, "on", ctx)

\* play_playlist: the playlist as playback context, shuffle on
SpotifyClient_play_playlist(uri, fault) ==
    Outcome(fault, <<uri>>, "on", [mode |-> "playlist", shuffle |-> TRUE])

-----------------------------------------------------------------------------
(* backend/recommender.py: Recommender.                                    *)
(*                                                                         *)
(* Feature vectors are kept exact: a vector of rationals is held as a      *)
(* vector of integers, the rationals times one positive factor, which a    *)
(* cosine does not see.  Tracks carry at most one artist, so an artist     *)
(* document is one token (the lower-cased name) or empty, and its          *)
(* l2-normalised TF-IDF row is the unit vector of that token, or zero when *)
(* the token is not in the vocabulary or the document is empty.            *)

\* tracks handed to the Recommender; `duration_ms` and `popularity` are
\* keys only when the catalog reports them
RecTrackSeq ==
    <<[id |-> "r1", artists |-> <<Sia>>, duration_ms |-> 1, popularity |-> 1],
      [id |-> "r2", artists |-> <<Nas>>, duration_ms |-> 3, popularity |-> 1],
      [id |-> "r3", artists |-> <<Lower(Sia)>>, popularity |-> 3],
      [id |-> "r4", artists |-> <<>>, duration_ms |-> 1]>>

RecTracks == {RecTrackSeq[i] : i \in 1..Len(RecTrackSeq)}

\* the `top_n` values of a call
TopNs == {0 - 1, 0, 1, MaxCandidates}

RECURSIVE SumSeq(_)
SumSeq(q) == IF q = <<>> THEN 0 ELSE Head(q) + SumSeq(Tail(q))

MinOf(S) == CHOOSE x \in S : \A y \in S : x <= y
MaxOf(S) == CHOOSE x \in S : \A y \in S : x >= y

RECURSIVE Gcd(_, _)
Gcd(a, b) == IF b = 0 THEN a ELSE Gcd(b, a % b)

\* the tokens of ", ".join(t.get("artists", [])) under the lower-casing
\* analyzer with token_pattern [^,]+
ArtistTokens(t) ==
    LET artists == Get(t, "artists", <<>>)
    IN  IF artists = <<>> THEN {} ELSE {Lower(artists[1])}

\* [t.get("duration_ms") or 0], [t.get("popularity") or 0]
Durations(tracks) ==
    [i \in 1..Len(tracks) |-> Get(tracks[i], "duration_ms", 0)]
Popularities(tracks) ==
    [i \in 1..Len(tracks) |-> Get(tracks[i], "popularity", 0)]

UnfittedScaler == [fitted |-> FALSE]

\* MinMaxScaler.fit on one column: the minimum and the range, a zero range
\* being replaced by 1
FitColumn(col) ==
    LET vals == {col[i] : i \in 1..Len(col)}
        rng  == MaxOf(vals) - MinOf(vals)
    IN  [min |-> MinOf(vals), range |-> IF rng = 0 THEN 1 ELSE rng]

NoProfile == [is_none |-> TRUE]

\* Recommender.__init__
Recommender__init__ ==
    [vectorizer |-> [fitted |-> FALSE, vocabulary |-> {}, idf |-> FALSE],
     scaler     |-> UnfittedScaler,
     profile    |-> NoProfile,
     fitted     |-> FALSE]

\* _build_matrix(top_tracks, fit=True) followed by matrix.mean(axis=0):
\* `after` is the Recommender's pipeline after the call.  An empty
\* vocabulary makes fit_transform raise ValueError; the vocabulary then
\* stands as it was, and the idf weights either stand too or are dropped
\* (idf_dropped), as the library's version has it.
FitAndMean(self, tracks, idf_dropped) ==
    LET vocab == UNION {ArtistTokens(tracks[i]) : i \in 1..Len(tracks)}
        n     == Len(tracks)
        dur   == Durations(tracks)
        pop   == Popularities(tracks)
        d     == FitColumn(dur)
        p     == FitColumn(pop)
    IN  IF vocab = {}
        THEN [raised |-> TRUE, exc |-> "ValueError",
              vectorizer |-> [self.vectorizer EXCEPT
                                !.idf = IF idf_dropped THEN FALSE ELSE @],
              scaler |-> self.scaler]
        ELSE IF n > 1
        THEN [raised |-> FALSE,
              vectorizer |-> [fitted |-> TRUE, vocabulary |-> vocab,
                              idf |-> TRUE],
              scaler |-> [fitted |-> TRUE, duration |-> d, popularity |-> p],
              \* the mean times n * d.range * p.range
              mean |-> [artist |-> [t \in vocab |->
                            d.range * p.range *
                            Cardinality({i \in 1..n :
                                           t \in ArtistTokens(tracks[i])})],
                        numeric |-> <<p.range * (SumSeq(dur) - n * d.min),
                                      d.range * (SumSeq(pop) - n * p.min)>>]]
        \* a single row: the scaler is not touched, the numeric part is 0
        ELSE [raised |-> FALSE,
              vectorizer |-> [fitted |-> TRUE, vocabulary |-> vocab,
                              idf |-> TRUE],
              scaler |-> self.scaler,
              mean |-> [artist |-> [t \in vocab |->
                            IF t \in ArtistTokens(tracks[1]) THEN 1 ELSE 0],
                        numeric |-> <<0, 0>>]]

\* build_profile: `out` is what the caller gets, `self` the Recommender
\* after the call
build_profile_of(self, top_tracks, idf_dropped) ==
    IF top_tracks = <<>>
    THEN [out |-> Raised("ValueError"), self |-> self]
    ELSE LET m == FitAndMean(self, top_tracks, idf_dropped)
         IN  IF m.raised
             THEN [out |-> Raised(m.exc),
                   self |-> [self EXCEPT !.vectorizer = m.vectorizer]]
             ELSE [out |-> Returned(m.mean),
                   self |-> [vectorizer |-> m.vectorizer,
                             scaler |-> m.scaler,
                             profile |-> m.mean,
                             fitted |-> TRUE]]

\* one row of _build_matrix(candidates, fit=False), times the scaler's
\* ranges: the unit vector of the artist token, and the numeric features as
\* the scaler transforms them (not clipped); all zeros for the numeric part
\* when the scaler was never fitted (transform raises, zeros_like)
CandidateRow(self, t) ==
    LET sc   == self.scaler
        k    == IF sc.fitted THEN sc.duration.range * sc.popularity.range
                ELSE 1
        toks == ArtistTokens(t)
    IN  [artist  |-> [tok \in self.vectorizer.vocabulary |->
                        IF tok \in toks THEN k ELSE 0],
         numeric |-> IF sc.fitted
                     THEN <<sc.popularity.range *
                              (Get(t, "duration_ms", 0) - sc.duration.min),
                            sc.duration.range *
                              (Get(t, "popularity", 0) - sc.popularity.min)>>
                     ELSE <<0, 0>>]

Dot(a, b) ==
    LET toks == DOMAIN a.artist
        RECURSIVE SumOver(_)
        SumOver(S) == IF S = {} THEN 0
                      ELSE LET x == CHOOSE y \in S : TRUE
                           IN  a.artist[x] * b.artist[x] + SumOver(S \ {x})
    IN  SumOver(toks) + a.numeric[1] * b.numeric[1]
                      + a.numeric[2] * b.numeric[2]

\* cosine_similarity(profile, row): its sign and its square as the
\* fraction dot2 / (p2 * c2); 0 when either vector is zero
Cosine(profile, row) ==
    LET dot == Dot(profile, row)
        p2  == Dot(profile, profile)
        c2  == Dot(row, row)
    IN  IF dot = 0 \/ p2 = 0 \/ c2 = 0
        THEN [sgn |-> 0, dot2 |-> 0, p2 |-> 1, c2 |-> 1]
        ELSE [sgn |-> IF dot > 0 THEN 1 ELSE 0 - 1,
              dot2 |-> dot * dot, p2 |-> p2, c2 |-> c2]

\* x >= y for two cosines against the same profile
CosineGeq(x, y) ==
    IF x.sgn # y.sgn THEN x.sgn > y.sgn
    ELSE IF x.sgn = 0 THEN TRUE
    ELSE IF x.sgn = 1 THEN x.dot2 * y.c2 >= y.dot2 * x.c2
    ELSE x.dot2 * y.c2 <= y.dot2 * x.c2

\* float(score) as a value: the sign and the square in lowest terms.
\* round(.., 4) is a function of it.
Score(c) ==
    LET den == c.p2 * c.c2
        g   == Gcd(c.dot2, den)
    IN  [sgn |-> c.sgn, num |-> c.dot2 \div g, den |-> den \div g]

\* sorted(zip(scores, candidates), key=lambda x: x[0], reverse=True): a
\* stable sort, so each pair goes after every pair whose score is at least
\* its own
RECURSIVE InsertByCosine(_, _)
InsertByCosine(sorted, x) ==
    IF sorted = <<>> THEN <<x>>
    ELSE IF CosineGeq(Head(sorted).cos, x.cos)
    THEN <<Head(sorted)>> \o InsertByCosine(Tail(sorted), x)
    ELSE <<x>> \o sorted

RECURSIVE SortedByCosine(_)
SortedByCosine(pairs) ==
    IF pairs = <<>> THEN <<>>
    ELSE InsertByCosine(SortedByCosine(SubSeq(pairs, 1, Len(pairs) - 1)),
                        pairs[Len(pairs)])

\* seq[:n] of Python: a negative n counts from the end
Slice(seq, n) ==
    LET stop == IF n >= 0 THEN (IF n < Len(seq) THEN n ELSE Len(seq))
                ELSE (IF Len(seq) + n > 0 THEN Len(seq) + n ELSE 0)
    IN  SubSeq(seq, 1, stop)

\* the scored and sorted candidates cut to top_n
Ranked(self, candidates, top_n) ==
    LET pairs == [i \in 1..Len(candidates) |->
                    [cos |-> Cosine(self.profile,
                                    CandidateRow(self, candidates[i])),
                     track |-> candidates[i]]]
        top == Slice(SortedByCosine(pairs), top_n)
    IN  [i \in 1..Len(top) |->
           [track |-> top[i].track, similarity_score |-> Score(top[i].cos)]]

\* mutant of rank_candidates_of: the empty candidate list is answered
\* before the profile is asked for
rank_candidates_of_EmptyFirst(self, candidates, top_n) ==
    IF candidates = <<>>
    THEN [out |-> Returned(<<>>), self |-> self]
    ELSE IF ~self.fitted \/ self.profile = NoProfile
    THEN [out |-> Raised("RuntimeError"), self |-> self]
    ELSE IF ~self.vectorizer.idf
    THEN [out |-> Raised("NotFittedError"), self |-> self]
    ELSE [out |-> Returned(Ranked(self, candidates, top_n)), self |-> self]

\* mutant of rank_candidates_of: the empty candidate list is not answered
\* apart, and stacking the empty matrix raises
rank_candidates_of_NoEmptyCheck(self, candidates, top_n) ==
    IF ~self.fitted \/ self.profile = NoProfile
    THEN [out |-> Raised("RuntimeError"), self |-> self]
    ELSE IF candidates = <<>>
    THEN [out |-> Raised("ValueError"), self |-> self]
    ELSE IF ~self.vectorizer.idf
    THEN [out |-> Raised("NotFittedError"), self |-> self]
    ELSE [out |-> Returned(Ranked(self, candidates, top_n)), self |-> self]

\* mutant of rank_candidates_of: the matrix is built with fit=True, so the
\* scaler is fitted to the candidates
rank_candidates_of_Refits(self, candidates, top_n) ==
    IF ~self.fitted \/ self.profile = NoProfile
    THEN [out |-> Raised("RuntimeError"), self |-> self]
    ELSE IF candidates = <<>>
    THEN [out |-> Returned(<<>>), self |-> self]
    ELSE IF ~self.vectorizer.idf
    THEN [out |-> Raised("NotFittedError"), self |-> self]
    ELSE LET fitted == IF Len(candidates) > 1
                       THEN [self EXCEPT !.scaler =
                               [fitted |-> TRUE,
                                duration |-> FitColumn(Durations(candidates)),
                                popularity |->
                                    FitColumn(Popularities(candidates))]]
                       ELSE self
         IN  [out |-> Returned(Ranked(fitted, candidates, top_n)),
              self |-> fitted]

\* rank_candidates: `out` is what the caller gets, `self` the Recommender
\* after the call.  With the idf weights dropped by a failed fit the
\* vectorizer's transform raises.
rank_candidates_of(self, candidates, top_n) ==
    IF ~self.fitted \/ self.profile = NoProfile
    THEN [out |-> Raised("RuntimeError"), self |-> self]
    ELSE IF candidates = <<>>
    THEN [out |-> Returned(<<>>), self |-> self]
    ELSE IF ~self.vectorizer.idf
    THEN [out |-> Raised("NotFittedError"), self |-> self]
    ELSE [out |-> Returned(Ranked(self, candidates, top_n)), self |-> self]

\* the top tracks of a listener: up to n tracks, a track as often as it
\* was played; the mean, the vocabulary and the scale do not see the order,
\* so one order stands for all
TopTrackLists(n) ==
    LET picks == {f \in UNION {[1..k -> 1..Len(RecTrackSeq)] : k \in 0..n} :
                    \A i \in 1..(Len(f) - 1) : f[i] <= f[i + 1]}
    IN  {[i \in 1..Len(f) |-> RecTrackSeq[f[i]]] : f \in picks}

\* a candidate pool: up to n different tracks in any order
CandidateLists(n) ==
    {l \in UNION {[1..k -> RecTracks] : k \in 0..n} :
        \A i, j \in 1..Len(l) : i # j => l[i] # l[j]}

\* what build_profile and rank_candidates are called with
TopTrackInputs  == TopTrackLists(MaxTop)
CandidateInputs == CandidateLists(MaxCandidates)

\* the call has the operation and the arguments of the call before it
Repeats(call) ==
    /\ rec_call.op = call.op
    /\ [rec_call EXCEPT !.out = 0, !.repeated = FALSE]
         = [call EXCEPT !.out = 0, !.repeated = FALSE]

\* Recommender.build_profile(top_tracks)
build_profile ==
    /\ \E top_tracks \in TopTrackInputs, idf_dropped \in BOOLEAN :
        \* idf_dropped tells two outcomes apart only when the fit fails
        /\ idf_dropped => \A i \in 1..Len(top_tracks) :
                              top_tracks[i].artists = <<>>
        /\ \E r \in {build_profile_of(recommender, top_tracks,
                                       idf_dropped)} :
               /\ recommender' = r.self
               /\ built_from' = IF r.out.raised THEN built_from ELSE top_tracks
               /\ \E call \in {[op |-> "build_profile",
                                top_tracks |-> top_tracks,
                                out |-> r.out, repeated |-> FALSE]} :
                   rec_call' = [call EXCEPT !.repeated = Repeats(call)]
    /\ UNCHANGED <<svars, vvars>>

\* Recommender.rank_candidates(candidates, top_n)
rank_candidates ==
    /\ \E candidates \in CandidateInputs, top_n \in TopNs :
        \E r \in {rank_candidates_of(recommender, candidates, top_n)} :
            /\ recommender' = r.self
            /\ \E call \in {[op |-> "rank_candidates",
                             candidates |-> candidates, top_n |-> top_n,
                             out |-> r.out, repeated |-> FALSE]} :
                rec_call' = [call EXCEPT !.repeated = Repeats(call)]
    /\ UNCHANGED built_from
    /\ UNCHANGED <<svars, vvars>>

-----------------------------------------------------------------------------
(* voice_client.py: record_until_silence.                                  *)
(*                                                                         *)
(* A chunk is the sequence of its signed 16-bit samples.  The samples are  *)
(* squared as float32, so the squares do not wrap, and the comparison of   *)
(* the RMS with the threshold is made on the squares.                      *)

\* the chunks the stream can deliver: an empty read, quiet ones and loud
\* ones, told apart by their samples
ChunkPool == {<<>>, <<1>>, <<2, 2>>, <<3>>, <<0 - 3, 1>>}

\* the `threshold` arguments: the scaled default, zero and a negative one
Thresholds == {2, 0, 0 - 1}

\* int(SAMPLE_RATE / CHUNK * silence_duration) for the durations passed
SilenceLimits == {0, 1, 2}

\* int(SAMPLE_RATE / CHUNK * MAX_RECORD_SECS)
max_chunks == MaxChunks

RECURSIVE SumSquares(_)
SumSquares(samples) ==
    IF samples = <<>> THEN 0
    ELSE Head(samples) * Head(samples) + SumSquares(Tail(samples))

\* rms > threshold, where rms is sqrt(mean(samples ** 2)), or 0.0 for a
\* chunk without samples
RmsAbove(raw, threshold) ==
    IF threshold < 0 THEN TRUE
    ELSE IF raw = <<>> THEN 0 > threshold
    ELSE SumSquares(raw) > threshold * threshold * Len(raw)

\* deque(maxlen=PREROLL_CHUNKS).append(raw): the oldest entry is dropped
\* from a full buffer
DequeAppend(preroll, raw) ==
    LET all == Append(preroll, raw)
    IN  IF Len(all) > PREROLL_CHUNKS
        THEN SubSeq(all, Len(all) - PREROLL_CHUNKS + 1, Len(all))
        ELSE all

NoFile == [exists |-> FALSE]

\* before record_until_silence is called
VoiceIdle ==
    [pc |-> "idle", threshold |-> 0, silence_limit |-> 0, preroll |-> <<>>,
     frames |-> <<>>, speaking |-> FALSE, silent_chunks |-> 0,
     total_chunks |-> 0, read |-> <<>>, onset |-> 0, wav |-> NoFile,
     returned |-> "None"]

\* record_until_silence(output, threshold, silence_duration) up to the loop
record_until_silence ==
    /\ voice.pc = "idle"
    /\ \E threshold \in Thresholds, silence_limit \in SilenceLimits :
        voice' = [voice EXCEPT !.pc = "loop", !.threshold = threshold,
                               !.silence_limit = silence_limit]
    /\ UNCHANGED <<svars, rvars>>

\* one pass of the while loop on the chunk `raw` the stream delivered;
\* `onset` is the number of the chunk that set `speaking`, `read` the chunks
\* read so far
LoopBody(v, raw) ==
    LET total == v.total_chunks + 1
        loud  == RmsAbove(raw, v.threshold)
        w     == [v EXCEPT !.total_chunks = total, !.read = Append(@, raw)]
    IN  IF ~v.speaking
        THEN LET x == [w EXCEPT !.preroll = DequeAppend(@, raw)]
             IN  IF loud
                 THEN [x EXCEPT !.speaking = TRUE, !.onset = total,
                                !.frames = @ \o x.preroll]
                 ELSE x
        ELSE LET x == [w EXCEPT !.frames = Append(@, raw)]
             IN  IF ~loud
                 THEN IF v.silent_chunks + 1 >= v.silence_limit
                      THEN [x EXCEPT !.silent_chunks = @ + 1, !.pc = "break"]
                      ELSE [x EXCEPT !.silent_chunks = @ + 1]
                 ELSE [x EXCEPT !.silent_chunks = 0]

\* stream.read(CHUNK) and the loop body, while total_chunks < max_chunks
read_chunk ==
    /\ voice.pc = "loop"
    /\ voice.total_chunks < max_chunks
    /\ \E raw \in ChunkPool : voice' = LoopBody(voice, raw)
    /\ UNCHANGED <<svars, rvars>>

\* mutant of AfterLoop: the file is written whether or not speech was heard
AfterLoop_AlwaysWrites(v) ==
    [v EXCEPT !.pc = "done",
              !.wav = [exists |-> TRUE, frames |-> v.frames],
              !.returned = "output"]

\* after the loop: "" when nothing was heard, else the frames are written
\* to `output` and its path is returned
AfterLoop(v) ==
    IF ~v.speaking
    THEN [v EXCEPT !.pc = "done", !.returned = ""]
    ELSE [v EXCEPT !.pc = "done",
                   !.wav = [exists |-> TRUE, frames |-> v.frames],
                   !.returned = "output"]

\* the loop is left, by the cap or by the break, and the call returns
record_return ==
    /\ \/ voice.pc = "break"
       \/ voice.pc = "loop" /\ voice.total_chunks >= max_chunks
    /\ voice' = AfterLoop(voice)
    /\ UNCHANGED <<svars, rvars>>

-----------------------------------------------------------------------------
(* backend/main.py: request handlers.                                      *)

\* the MoodRequest row of a request
MoodRequest(msg, int, resolved_query, mode) ==
    [message |-> msg,
     resolved_action |-> IF mode # "None" THEN mode
                         ELSE Get(int, "action", "None"),
     resolved_query |-> resolved_query,
     intent_source |-> Get(int, "source", "None")]

\* mutant of _save_mood_request: the failure of the session is not caught
_save_mood_request_Propagates(msg, int, resolved_query, mode, db_ok) ==
    IF db_ok
    THEN [raised |-> FALSE,
          rows |-> Append(mood_requests,
                          MoodRequest(msg, int, resolved_query, mode))]
    ELSE [raised |-> TRUE, exc |-> "SQLAlchemyError", rows |-> mood_requests]

\* _save_mood_request: `rows` is the table after the call.  When the session
\* fails (db_ok = FALSE) the exception is logged and dropped, and the
\* rollback leaves the table as it was
_save_mood_request(msg, int, resolved_query, mode, db_ok) ==
    IF db_ok
    THEN [raised |-> FALSE,
          rows |-> Append(mood_requests,
                          MoodRequest(msg, int, resolved_query, mode))]
    ELSE [raised |-> FALSE, rows |-> mood_requests]

\* no ConnectedPlaylist row (None)
NoPlaylist == [spotify_id |-> "None"]

Init ==
    /\ pc = "idle"
    /\ connected = <<>>
    /\ message = <<>>
    /\ llm = [kind |-> "none"]
    /\ intent = EmptyDict
    /\ query = <<>>
    /\ playlist = NoPlaylist
    /\ found = <<>>
    /\ results = <<>>
    /\ playlist_uris = <<>>
    /\ is_diverse = FALSE
    /\ calls = <<>>
    /\ resp = [code |-> 0]
    /\ mood_requests = <<>>
    /\ recommender = Recommender__init__
    /\ rec_call = [op |-> "none"]
    /\ built_from = <<>>
    /\ voice = VoiceIdle

\* what /ask does with the outcome r of parse: the history write is outside
\* the try, so an exception of it would end the request
AskOutcome(msg, r, db_ok) ==
    IF r.raised
    THEN [resp |-> [code |-> 500, detail |-> r.exc], rows |-> mood_requests]
    ELSE LET s == _save_mood_request(msg, r.value,
                                     Get(r.value, "query", <<>>),
                                     "None", db_ok)
         IN  [resp |-> IF s.raised THEN [code |-> 500, detail |-> s.exc]
                       ELSE [code |-> 200, body |-> r.value],
              rows |-> s.rows]

\* POST /ask
ask(msg, o, db_ok) ==
    /\ pc = "idle"
    /\ message' = msg
    /\ llm' = o
    /\ \E r \in {parse(msg, o)} :
        /\ IF r.raised THEN UNCHANGED intent ELSE intent' = r.value
        /\ \E out \in {AskOutcome(msg, r, db_ok)} :
            /\ resp' = out.resp
            /\ mood_requests' = out.rows
    /\ pc' = "done"
    /\ UNCHANGED <<connected, query, playlist, found, results,
                   playlist_uris, is_diverse, calls>>
    /\ UNCHANGED <<rvars, vvars>>

-----------------------------------------------------------------------------
(* backend/main.py: POST /play.                                            *)

\* what /play is asked: nothing, an artist, a padded mood word
PlayMessages == {<<>>, <<"S","i","a">>, <<" ","L","o","f","i"," ">>}

\* what the language-model call does for /play
PlayLLMOutcomes ==
    {[kind |-> "APIStatusError"], [kind |-> "Exception"],
     [kind |-> "no_tool_calls"]}
    \cup {[kind |-> "tool_calls", json |-> "object", value |-> v] : v \in
            {IntentObject("play_music", <<>>, "absent"),
             IntentObject("play_music", <<"S","i","a">>, "absent"),
             IntentObject("play_music", <<"S","i","a">>, "mood"),
             IntentObject("play_music", <<" ","l","o","f","i">>, "mood"),
             IntentObject("play_music", <<"n","a","s">>, "not_mood"),
             IntentObject("unknown", <<"S","i","a">>, "empty")}}

\* the playlists a user connects
PlaylistBodies ==
    {[spotify_id |-> "p1", name |-> <<"L","o","f","i">>,
      uri |-> "spotify:playlist:1"],
     [spotify_id |-> "p2", name |-> <<"S","I","A">>,
      uri |-> "spotify:playlist:2"]}

\* what the catalog's playlist lookup and the recommendations lookup give
PlaylistLookups == {Fault, Found(<<>>),
                    Found(<<"spotify:track:8", "spotify:track:9">>)}
RecOutcomes == {Fault, Found(<<>>),
                Found(<<"spotify:track:1", "spotify:track:9">>)}

_resolve_play_query(int, msg) ==
    LET q == Strip(Get(int, "query", <<>>))
    IN  IF q = <<>> \/ Get(int, "action", "None") = "unknown"
        THEN Strip(msg)
        ELSE q

\* mutant of ConnectedMatch: the names are compared as written
ConnectedMatch_CaseSensitive(rows, q) ==
    LET hits == {i \in 1..Len(rows) : rows[i].name = Strip(q)}
    IN  IF hits = {} THEN NoPlaylist
        ELSE rows[CHOOSE i \in hits : \A j \in hits : i <= j]

\* select(ConnectedPlaylist).where(lower(name) == query.lower().strip())
\* .scalars().first()
ConnectedMatch(rows, q) ==
    LET hits == {i \in 1..Len(rows) : Lower(rows[i].name) = Strip(Lower(q))}
    IN  IF hits = {} THEN NoPlaylist
        ELSE rows[CHOOSE i \in hits : \A j \in hits : i <= j]

_normalize(s) == Strip(ReplaceAmp(Lower(s)))

\* mutant of _score_track: the artist bonus is left out
_score_track_NoArtistBonus(t, q) ==
    Get(t, "popularity", 0)
    + (IF _normalize(t.name) = _normalize(q) THEN 50 ELSE 0)

\* mutant of _score_track: the title bonus is left out
_score_track_NoTitleBonus(t, q) ==
    Get(t, "popularity", 0)
    + (IF \E i \in 1..Len(t.artists) :
             IsSubstring(_normalize(t.artists[i]), _normalize(q))
       THEN 50 ELSE 0)

_score_track(t, q) ==
    LET q_norm == _normalize(q)
    IN  Get(t, "popularity", 0)
        + (IF \E i \in 1..Len(t.artists) :
                 IsSubstring(_normalize(t.artists[i]), q_norm)
           THEN 50 ELSE 0)
        + (IF _normalize(t.name) = q_norm THEN 50 ELSE 0)

\* sorted(results, key=_score_track, reverse=True): a stable sort, so each
\* track goes after every track whose key is at least its own
RECURSIVE InsertByScore(_, _, _)
InsertByScore(sorted, t, q) ==
    IF sorted = <<>> THEN <<t>>
    ELSE IF _score_track(Head(sorted), q) >= _score_track(t, q)
    THEN <<Head(sorted)>> \o InsertByScore(Tail(sorted), t, q)
    ELSE <<t>> \o sorted

RECURSIVE SortedByScore(_, _)
SortedByScore(seq, q) ==
    IF seq = <<>> THEN <<>>
    ELSE InsertByScore(SortedByScore(SubSeq(seq, 1, Len(seq) - 1), q),
                       seq[Len(seq)], q)

\* bool(top_artist_words & query_words)
ArtistNamed(track, q) ==
    LET first == IF track.artists # <<>> THEN track.artists[1] ELSE <<>>
    IN  Words(Lower(first)) \cap Words(Lower(q)) # {}

\* bool(track_name_words & query_words)
TitleInQuery(track, q) ==
    Words(Lower(track.name)) \cap Words(Lower(q)) # {}

\* mutant of IsMoodOrGenre: an intent of the keyword fallback always counts
\* as a mood or genre request
IsMoodOrGenre_FallbackIsMood(int) ==
    \/ Get(int, "source", "None") = "fallback"
    \/ Get(Get(int, "extras", EmptyDict), "is_mood_or_genre", FALSE)

\* bool((intent.get("extras") or {}).get("is_mood_or_genre"))
IsMoodOrGenre(int) ==
    Get(Get(int, "extras", EmptyDict), "is_mood_or_genre", FALSE)

\* mutant of NoTracks: the empty result is not noticed
NoTracks_Never(items) == FALSE

\* `if not results` after the first search
NoTracks(items) == items = <<>>

\* mutant of DispatchRule: the artist rule is left out
DispatchRule_NoArtistRule(has_uris, diverse, artist_named, title_in_query) ==
    IF has_uris THEN "multi_playlist"
    ELSE IF diverse THEN "multi_pool"
    ELSE "track"

\* mutant of DispatchRule: the artist rule is asked before the playlist's
\* uris
DispatchRule_ArtistFirst(has_uris, diverse, artist_named, title_in_query) ==
    IF artist_named /\ ~title_in_query THEN "artist"
    ELSE IF has_uris THEN "multi_playlist"
    ELSE IF diverse THEN "multi_pool"
    ELSE "track"

\* the if / elif chain that picks the playback operation
DispatchRule(has_uris, diverse, artist_named, title_in_query) ==
    IF has_uris THEN "multi_playlist"
    ELSE IF diverse THEN "multi_pool"
    ELSE IF artist_named /\ ~title_in_query THEN "artist"
    ELSE "track"

ModeOf(rule) == IF rule \in {"multi_playlist", "multi_pool"} THEN "multi"
                ELSE rule

\* mutant of OperationOf: the artist rule plays the single track
OperationOf_ArtistPlaysTrack(rule) ==
    IF rule \in {"multi_playlist", "multi_pool"} THEN "play_multi_track"
    ELSE "play_track"

\* the SpotifyClient operation each rule calls
OperationOf(rule) ==
    IF rule \in {"multi_playlist", "multi_pool"} THEN "play_multi_track"
    ELSE IF rule = "artist" THEN "play_artist"
    ELSE "play_track"

\* the call of the operation, with the arguments the rule gives it
Transport(rule, track, recs, fault) ==
    LET op == OperationOf(rule)
    IN  IF op = "play_multi_track"
        THEN IF rule = "multi_playlist"
             THEN SpotifyClient_play_multi_track(playlist_uris, TRUE, fault)
             ELSE SpotifyClient_play_multi_track(results, FALSE, fault)
        ELSE IF op = "play_artist"
        THEN SpotifyClient_play_artist(track, fault)
        ELSE SpotifyClient_play_track(track, recs, fault)

\* the response body of each mode
PlayBody(rule, track, ctx) ==
    IF rule \in {"multi_playlist", "multi_pool"}
    THEN [status |-> "playing", mode |-> "multi",
          track_count |-> ctx.track_count, artists |-> ctx.artists,
          shuffle |-> ctx.shuffle]
    ELSE IF rule = "artist"
    THEN [status |-> "playing", mode |-> "artist",
          artist |-> track.artists[1], shuffle |-> ctx.shuffle]
    ELSE [status |-> "playing", mode |-> "track", track |-> track.name,
          artists |-> track.artists, uri |-> track.uri,
          shuffle |-> ctx.shuffle]

CallOf(op, r) ==
    [op |-> op, ok |-> ~r.raised, sent |-> r.sent, shuffled |-> r.shuffled]

\* _require_spotify_auth, intent_engine.parse, _resolve_play_query
play_resolve ==
    /\ pc = "idle"
    /\ \E msg \in PlayMessages, authed \in BOOLEAN, o \in PlayLLMOutcomes :
        /\ message' = msg
        /\ IF ~authed
           THEN /\ resp' = [code |-> 401, detail |-> "Not authenticated"]
                /\ pc' = "done"
                /\ UNCHANGED <<llm, intent, query>>
           ELSE \E r \in {parse(msg, o)} :
                /\ llm' = o
                /\ IF r.raised
                   THEN /\ resp' = [code |-> 500, detail |-> r.exc]
                        /\ pc' = "done"
                        /\ UNCHANGED <<intent, query>>
                   ELSE /\ intent' = r.value
                        /\ query' = _resolve_play_query(r.value, msg)
                        /\ pc' = "connected"
                        /\ UNCHANGED resp
    /\ UNCHANGED <<connected, playlist, found, results, playlist_uris,
                   is_diverse, calls, mood_requests>>
    /\ UNCHANGED <<rvars, vvars>>

\* the connected-playlist check
play_connected ==
    /\ pc = "connected"
    /\ playlist' = ConnectedMatch(connected, query)
    /\ pc' = IF playlist' # NoPlaylist THEN "playlist" ELSE "search"
    /\ UNCHANGED <<connected, message, llm, intent, query, found, results,
                   playlist_uris, is_diverse, calls, resp, mood_requests>>
    /\ UNCHANGED <<rvars, vvars>>

\* `if playlist:` -- play it and return; a fault of the playback call is
\* not caught here
PlaylistOutcome(int, fault, db_ok) ==
    LET r == SpotifyClient_play_playlist(playlist.uri, fault)
        s == _save_mood_request(message, int, playlist.name, "playlist",
                                db_ok)
    IN  [call |-> CallOf("play_playlist", r),
         resp |-> IF r.raised THEN [code |-> 500, detail |-> r.exc]
                  ELSE IF s.raised THEN [code |-> 500, detail |-> s.exc]
                  ELSE [code |-> 200, body |->
                          [status |-> "playing", mode |-> "playlist",
                           playlist |-> playlist.name, uri |-> playlist.uri,
                           shuffle |-> Get(r.value, "shuffle", TRUE)]],
         rows |-> IF r.raised THEN mood_requests ELSE s.rows]

play_playlist_mode ==
    /\ pc = "playlist"
    /\ \E fault \in TransportFaults, db_ok \in BOOLEAN :
        \E out \in {PlaylistOutcome(intent, fault, db_ok)} :
            /\ calls' = Append(calls, out.call)
            /\ resp' = out.resp
            /\ mood_requests' = out.rows
    /\ pc' = "done"
    /\ UNCHANGED <<connected, message, llm, intent, query, playlist, found,
                   results, playlist_uris, is_diverse>>
    /\ UNCHANGED <<rvars, vvars>>

\* `if not artist_named or is_mood_or_genre`
NeedsLookup(track, q, int) == ~ArtistNamed(track, q) \/ IsMoodOrGenre(int)

\* mutant of NeedsWiden: a flagged request widens the pool too
NeedsWiden_EvenIfFlagged(uris, int) == uris = <<>>

\* `if not playlist_uris and not is_mood_or_genre`
NeedsWiden(uris, int) == uris = <<>> /\ ~IsMoodOrGenre(int)

\* the first search, the not-found exit and the scoring of the candidates
play_search ==
    /\ pc = "search"
    /\ \E out \in {Fault} \cup {Found(l) : l \in TrackLists(MaxResults)} :
        /\ calls' = Append(calls, [op |-> "search_track", q |-> query,
                                   ok |-> ~out.fault])
        /\ IF out.fault
           THEN /\ resp' = [code |-> 500, detail |-> "SpotifyException"]
                /\ pc' = "done"
                /\ UNCHANGED <<found, results>>
           ELSE IF NoTracks(out.items)
           THEN /\ resp' = [code |-> 404, detail |-> "No tracks found"]
                /\ pc' = "done"
                /\ found' = out.items
                /\ UNCHANGED results
           ELSE IF out.items = <<>>
           THEN \* results[0] of an empty list
                /\ resp' = [code |-> 500, detail |-> "IndexError"]
                /\ pc' = "done"
                /\ found' = out.items
                /\ UNCHANGED results
           ELSE /\ found' = out.items
                /\ results' = SortedByScore(out.items, query)
                /\ pc' = IF NeedsLookup(results'[1], query, intent)
                         THEN "lookup" ELSE "dispatch"
                /\ UNCHANGED resp
    /\ UNCHANGED <<connected, message, llm, intent, query, playlist,
                   playlist_uris, is_diverse, mood_requests>>
    /\ UNCHANGED <<rvars, vvars>>

\* the catalog playlist lookup; its fault is logged and dropped
play_lookup ==
    /\ pc = "lookup"
    /\ \E out \in PlaylistLookups :
        /\ calls' = Append(calls, [op |-> "search_playlists", q |-> query,
                                   ok |-> ~out.fault])
        /\ playlist_uris' = IF out.fault THEN <<>> ELSE out.items
        /\ pc' = IF NeedsWiden(playlist_uris', intent)
                 THEN "widen" ELSE "dispatch"
    /\ UNCHANGED <<connected, message, llm, intent, query, playlist, found,
                   results, is_diverse, resp, mood_requests>>
    /\ UNCHANGED <<rvars, vvars>>

\* the second search "<query> mix" and the diversity test
play_widen ==
    /\ pc = "widen"
    /\ \E out \in {Fault} \cup {Found(l) : l \in TrackLists(MaxExtra)} :
        /\ calls' = Append(calls,
                           [op |-> "search_track",
                            q |-> query \o <<" ","m","i","x">>,
                            ok |-> ~out.fault])
        /\ IF out.fault
           THEN /\ resp' = [code |-> 500, detail |-> "SpotifyException"]
                /\ pc' = "done"
                /\ UNCHANGED <<results, is_diverse>>
           ELSE LET seen == {results[i].id : i \in 1..Len(results)}
                IN  /\ results' = results \o
                          SelectSeq(out.items, LAMBDA t : t.id \notin seen)
                    /\ is_diverse' = (Cardinality(ArtistsOf(results')) >= 2)
                    /\ pc' = "dispatch"
                    /\ UNCHANGED resp
    /\ UNCHANGED <<connected, message, llm, intent, query, playlist, found,
                   playlist_uris, mood_requests>>
    /\ UNCHANGED <<rvars, vvars>>

\* the try block: one playback operation, the response, the history row;
\* every exception raised inside it becomes a 400
DispatchOutcome(int, fault, recs, db_ok) ==
    LET track == results[1]
        rule  == DispatchRule(playlist_uris # <<>>, is_diverse,
                              ArtistNamed(track, query),
                              TitleInQuery(track, query))
        r     == Transport(rule, track, recs, fault)
        s     == _save_mood_request(message, int, query, ModeOf(rule), db_ok)
    IN  [call |-> CallOf(OperationOf(rule), r),
         resp |-> IF r.raised THEN [code |-> 400, detail |-> r.exc]
                  ELSE IF s.raised THEN [code |-> 400, detail |-> s.exc]
                  ELSE [code |-> 200, body |-> PlayBody(rule, track, r.value)],
         rows |-> IF r.raised THEN mood_requests ELSE s.rows]

play_dispatch ==
    /\ pc = "dispatch"
    /\ \E fault \in TransportFaults, recs \in RecOutcomes, db_ok \in BOOLEAN :
        \E out \in {DispatchOutcome(intent, fault, recs, db_ok)} :
            /\ calls' = Append(calls, out.call)
            /\ resp' = out.resp
            /\ mood_requests' = out.rows
    /\ pc' = "done"
    /\ UNCHANGED <<connected, message, llm, intent, query, playlist, found,
                   results, playlist_uris, is_diverse>>
    /\ UNCHANGED <<rvars, vvars>>

-----------------------------------------------------------------------------
(* backend/main.py: POST /play-track and POST /connect-playlist.           *)

UriInputs == {"spotify:track:1", "spotify:album:1", ""}
\* body.uri.strip().startswith("spotify:track:")
IsTrackUri(uri) == uri \in {"spotify:track:1"}

MetaOutcomes == {Fault,
                 [fault |-> FALSE, album_uri |-> "spotify:album:1"],
                 [fault |-> FALSE, album_uri |-> "None"]}

play_track_by_uri ==
    /\ pc = "idle"
    /\ \E uri \in UriInputs, authed \in BOOLEAN, meta \in MetaOutcomes,
          fault \in TransportFaults :
        IF ~authed
        THEN /\ resp' = [code |-> 401, detail |-> "Not authenticated"]
             /\ UNCHANGED calls
        ELSE IF ~IsTrackUri(uri)
        THEN /\ resp' = [code |-> 400, detail |-> "Invalid track URI"]
             /\ UNCHANGED calls
        ELSE \E r \in {SpotifyClient_play_uri(uri, meta, fault)} :
             /\ calls' = Append(calls, CallOf("play_uri", r))
             /\ resp' = IF r.raised
                        THEN [code |-> 400, detail |-> r.exc]
                        ELSE [code |-> 200, body |->
                                [status |-> "playing", uri |-> uri,
                                 mode |-> r.value.mode,
                                 shuffle |-> r.value.shuffle]]
    /\ pc' = "done"
    /\ UNCHANGED <<connected, message, llm, intent, query, playlist, found,
                   results, playlist_uris, is_diverse, mood_requests>>
    /\ UNCHANGED <<rvars, vvars>>

connect_playlist ==
    /\ pc = "idle"
    /\ Len(connected) < MaxPlaylists
    /\ \E body \in PlaylistBodies :
        connected' =
            IF \E i \in 1..Len(connected) :
                    connected[i].spotify_id = body.spotify_id
            THEN connected
            ELSE Append(connected, body)
    /\ UNCHANGED <<pc, message, llm, intent, query, playlist, found, results,
                   playlist_uris, is_diverse, calls, resp, mood_requests>>
    /\ UNCHANGED <<rvars, vvars>>

Next ==
    \/ connect_playlist
    \/ play_resolve
    \/ play_connected
    \/ play_playlist_mode
    \/ play_search
    \/ play_lookup
    \/ play_widen
    \/ play_dispatch
    \/ play_track_by_uri
    \/ \E msg \in PlayMessages, o \in PlayLLMOutcomes, db_ok \in BOOLEAN :
        ask(msg, o, db_ok)

Spec == Init /\ [][Next]_vars

NextResolve ==
    /\ pc = "idle"
    /\ \E msg \in Utterances, o \in LLMOutcomes, db_ok \in BOOLEAN :
        ask(msg, o, db_ok)

\* the resolver alone: every utterance against every language-model outcome
SpecResolve == Init /\ [][NextResolve]_vars

NextRecommender ==
    \/ build_profile
    \/ rank_candidates

\* one Recommender under any sequence of calls
SpecRecommender == Init /\ [][NextRecommender]_vars

NextVoice ==
    \/ record_until_silence
    \/ read_chunk
    \/ record_return

\* one call of record_until_silence on any stream
SpecVoice == Init /\ [][NextVoice]_vars

-----------------------------------------------------------------------------
(* Claims about /play and the playback operations, checked under Spec.     *)

\* /play got an intent and resolved its query
Resolved == "source" \in DOMAIN intent

\* the resolved query, trimmed and compared case-insensitively, equals the
\* name of a connected playlist
QueryNamesConnected ==
    \E i \in 1..Len(connected) :
        Lower(connected[i].name) = Lower(Strip(query))

Ops(names) == SelectSeq(calls, LAMBDA c : c.op \in names)

TransportOps == {"play_track", "play_artist", "play_multi_track",
                 "play_playlist"}

\* the first search was made and answered
Searched ==
    /\ Len(calls) >= 1
    /\ calls[1].op = "search_track"
    /\ calls[1].ok

\* C1: a /play request whose resolved query names a connected playlist
\* makes no track search, no catalog playlist lookup and no track, artist
\* or multi playback call, whatever the catalog would return; its only
\* call is the playlist playback, and its response has mode playlist
\* (when that call faults the request fails and reports no mode).
C1_ConnectedPlaylistFirst ==
    (Resolved /\ QueryNamesConnected)
    => /\ pc \in {"connected", "playlist", "done"}
       /\ \A i \in 1..Len(calls) : calls[i].op = "play_playlist"
       /\ pc = "done"
          => /\ Len(calls) = 1
             /\ IF calls[1].ok
                THEN resp.code = 200 /\ resp.body.mode = "playlist"
                ELSE resp.code = 500

\* the playlist was matched although the query is not written like its name
C1_Witness ==
    /\ pc = "done"
    /\ Resolved /\ QueryNamesConnected
    /\ \A i \in 1..Len(connected) : connected[i].name # query
    /\ resp.code = 200
    /\ resp.body.mode = "playlist"

\* the playback operation that belongs to a mode
OperationOfMode(mode) ==
    IF mode = "playlist" THEN "play_playlist"
    ELSE IF mode = "multi" THEN "play_multi_track"
    ELSE IF mode = "artist" THEN "play_artist"
    ELSE "play_track"

\* C2: a /play request that finds a candidate (or a connected playlist) and
\* meets no collaborator fault ends with exactly one mode out of track,
\* artist, multi, playlist and makes exactly one playback call, the one
\* that belongs to that mode.
C2_OneModeOneCall ==
    (/\ pc = "done"
     /\ Resolved
     /\ playlist # NoPlaylist \/ found # <<>>
     /\ \A i \in 1..Len(calls) : calls[i].ok)
    => /\ resp.code = 200
       /\ resp.body.mode \in {"track", "artist", "multi", "playlist"}
       /\ Len(Ops(TransportOps)) = 1
       /\ Ops(TransportOps)[1].op = OperationOfMode(resp.body.mode)
       /\ calls[Len(calls)].op \in TransportOps

\* multi playback reached through the lookup and the widening search
C2_Witness ==
    /\ pc = "done"
    /\ Resolved
    /\ Len(calls) = 4
    /\ \A i \in 1..Len(calls) : calls[i].ok
    /\ resp.code = 200
    /\ resp.body.mode = "multi"

\* the top-ranked track names its primary artist in the query and none of
\* its title words, and the intent does not flag a mood or genre
ArtistOnlyRequest ==
    /\ Resolved
    /\ ~QueryNamesConnected
    /\ Searched
    /\ found # <<>>
    /\ results[1].artists # <<>>
    /\ Words(Lower(results[1].artists[1])) \cap Words(Lower(query)) # {}
    /\ Words(Lower(results[1].name)) \cap Words(Lower(query)) = {}
    /\ \/ "extras" \notin DOMAIN intent
       \/ "is_mood_or_genre" \notin DOMAIN intent.extras
       \/ ~intent.extras.is_mood_or_genre

\* C3: with no connected playlist matching, a top-ranked track whose
\* primary-artist words meet the query words while none of its title words
\* does, and is_mood_or_genre unset, /play dispatches to artist playback
\* without a catalog playlist lookup and without a second search.
C3_ArtistOnlyPlaysArtist ==
    ArtistOnlyRequest
    => /\ pc \in {"dispatch", "done"}
       /\ Ops({"search_playlists"}) = <<>>
       /\ Len(Ops({"search_track"})) = 1
       /\ pc = "done"
          => /\ Len(calls) = 2
             /\ calls[2].op = "play_artist"
             /\ IF calls[2].ok
                THEN resp.code = 200 /\ resp.body.mode = "artist"
                ELSE resp.code = 400

C3_Witness ==
    /\ pc = "done"
    /\ ArtistOnlyRequest
    /\ resp.code = 200
    /\ resp.body.mode = "artist"
    /\ Len(found) = 2

\* C4: every response that reports mode playlist, multi or artist reports
\* shuffle ON and every response that reports mode track reports shuffle
\* OFF, for every playback operation that returns a mode (play_uri
\* included).
C4_ShuffleFollowsMode ==
    (pc = "done" /\ resp.code = 200)
    => /\ resp.body.mode \in {"playlist", "multi", "artist"}
          => resp.body.shuffle = TRUE
       /\ resp.body.mode = "track" => resp.body.shuffle = FALSE

\* C5: when no connected playlist matches and the first track search
\* returns no track, the request ends not-found (404) and that search is
\* the only collaborator call it made.
C5_NoTrackIsTerminal ==
    (Resolved /\ ~QueryNamesConnected /\ Searched /\ found = <<>>)
    => /\ pc = "done"
       /\ resp.code = 404
       /\ Len(calls) = 1

C5_Witness ==
    /\ Resolved /\ ~QueryNamesConnected /\ Searched /\ found = <<>>
    /\ pc = "done"
    /\ resp.code = 404

\* C6: the search term normalize produces, and the catalog receives, is
\* never empty: it is the trimmed utterance when the intent's query is
\* empty or its action is unknown, and the intent's query otherwise.
C6_SearchTermNonEmpty ==
    (Resolved /\ Len(calls) >= 1 /\ calls[1].op = "search_track")
    => /\ calls[1].q # <<>>
       /\ calls[1].q = IF \/ Strip(Get(intent, "query", <<>>)) = <<>>
                          \/ Get(intent, "action", "None") = "unknown"
                       THEN Strip(message)
                       ELSE Strip(intent.query)

\* the scored candidate list: the first search result after sorting
Scored == SubSeq(results, 1, Len(found))

ArtistInQuery(t) ==
    \E i \in 1..Len(t.artists) :
        IsSubstring(Strip(ReplaceAmp(Lower(t.artists[i]))),
                    Strip(ReplaceAmp(Lower(query))))

TitleIsQuery(t) ==
    Strip(ReplaceAmp(Lower(t.name))) = Strip(ReplaceAmp(Lower(query)))

SamePopularity(a, b) ==
    Get(a, "popularity", -1) = Get(b, "popularity", -1)

\* C7 as stated: of two tracks of a search result with equal popularity,
\* the one with an artist name that is a substring of the normalized query
\* is placed before the other in the scored candidate list.
C7_ArtistMatchOutranks ==
    (Searched /\ found # <<>>)
    => \A i, j \in 1..Len(Scored) :
        (/\ SamePopularity(Scored[i], Scored[j])
         /\ ArtistInQuery(Scored[i])
         /\ ~ArtistInQuery(Scored[j]))
        => i < j

\* C7 amended: ... unless the other track's normalized title equals the
\* normalized query while the first track's title does not.
C7_ArtistMatchOutranksUnlessTitle ==
    (Searched /\ found # <<>>)
    => \A i, j \in 1..Len(Scored) :
        (/\ SamePopularity(Scored[i], Scored[j])
         /\ ArtistInQuery(Scored[i])
         /\ ~ArtistInQuery(Scored[j])
         /\ TitleIsQuery(Scored[j]) => TitleIsQuery(Scored[i]))
        => i < j

\* the catalog listed the artist match second and the scoring moved it up
C7_Witness ==
    /\ Searched
    /\ Len(found) = 2
    /\ SamePopularity(found[1], found[2])
    /\ ArtistInQuery(found[2])
    /\ ~ArtistInQuery(found[1])
    /\ ~TitleIsQuery(found[1])
    /\ Scored = <<found[2], found[1]>>

\* the ranking key as C24 states it
RankingKey(t) ==
    (IF "popularity" \in DOMAIN t THEN t.popularity ELSE 0)
    + (IF ArtistInQuery(t) THEN 50 ELSE 0)
    + (IF TitleIsQuery(t) THEN 50 ELSE 0)

\* f places the tracks of `from` in the order of `to`: keys descending, and
\* tracks with equal keys in the order they have in `from`
IsRankingOf(f, from, to) ==
    /\ \A i \in 1..Len(to) : to[i] = from[f[i]]
    /\ \A i, j \in 1..Len(to) : i # j => f[i] # f[j]
    /\ \A i, j \in 1..Len(to) :
        i < j => /\ RankingKey(to[i]) >= RankingKey(to[j])
                 /\ RankingKey(to[i]) = RankingKey(to[j]) => f[i] < f[j]

\* C24: in /play the ranking key of a candidate is its popularity (0 if
\* absent) + 50 if one of its normalized artist names is a substring of the
\* normalized query + 50 if its normalized name equals the normalized
\* query; the scored candidate list is the search result ordered by that
\* key descending, candidates with equal keys in the catalog's order.
C24_RankingKeyOrdersCandidates ==
    (Searched /\ found # <<>>)
    => /\ Len(Scored) = Len(found)
       /\ \E f \in [1..Len(found) -> 1..Len(found)] :
            IsRankingOf(f, found, Scored)

\* the catalog listed a title match without popularity advantage second,
\* and the title bonus alone moved it to the top
C24_Witness ==
    /\ Searched
    /\ Len(found) = 2
    /\ SamePopularity(found[1], found[2])
    /\ TitleIsQuery(found[2]) /\ ~ArtistInQuery(found[2])
    /\ ~TitleIsQuery(found[1]) /\ ~ArtistInQuery(found[1])
    /\ Scored = <<found[2], found[1]>>

\* the intent carries is_mood_or_genre and it is true
MoodFlagged ==
    /\ "extras" \in DOMAIN intent
    /\ "is_mood_or_genre" \in DOMAIN intent.extras
    /\ intent.extras.is_mood_or_genre

\* a word of the top-ranked track's primary artist is a word of the query
TopArtistNamed ==
    /\ results[1].artists # <<>>
    /\ Words(Lower(results[1].artists[1])) \cap Words(Lower(query)) # {}

\* a word of the top-ranked track's title is a word of the query
TopTitleNamed ==
    Words(Lower(results[1].name)) \cap Words(Lower(query)) # {}

\* no connected playlist matched, the first search found tracks, and the
\* top track's artist is not named in the query or the request is flagged
LookupDue ==
    /\ Resolved
    /\ ~QueryNamesConnected
    /\ Searched
    /\ found # <<>>
    /\ ~TopArtistNamed \/ MoodFlagged

\* the catalog playlist lookup was made on the query, as the second call
LookedUp ==
    /\ Len(calls) >= 2
    /\ calls[2].op = "search_playlists"
    /\ calls[2].q = query

\* C25: when no connected playlist matches and the top track's artist is
\* not named in the query or is_mood_or_genre is true, a catalog playlist
\* lookup is made on the query; if it returns track uris, the one playback
\* call is multi playback with exactly those uris as the queue, the
\* response reports mode multi and no artists, and neither the artist nor
\* the track rule is applied (a fault of the playback call fails the
\* request).
C25_PlaylistLookupFirst ==
    LookupDue
    => /\ pc \in {"lookup", "widen", "dispatch", "done"}
       /\ pc # "lookup" => LookedUp
       /\ (LookedUp /\ calls[2].ok /\ playlist_uris # <<>>)
          => /\ pc \in {"dispatch", "done"}
             /\ ~is_diverse
             /\ pc = "done"
                => /\ Len(calls) = 3
                   /\ calls[3].op = "play_multi_track"
                   /\ IF calls[3].ok
                      THEN /\ calls[3].sent = playlist_uris
                           /\ resp.code = 200
                           /\ resp.body.mode = "multi"
                           /\ resp.body.artists = {}
                           /\ resp.body.track_count = Len(playlist_uris)
                      ELSE /\ calls[3].sent \in {<<>>, playlist_uris}
                           /\ resp.code = 400

\* a flagged request that names the top track's artist and no title word:
\* the playlist's uris were played, not the artist
C25_Witness ==
    /\ pc = "done"
    /\ LookupDue
    /\ MoodFlagged
    /\ TopArtistNamed /\ ~TopTitleNamed
    /\ LookedUp
    /\ playlist_uris # <<>>
    /\ resp.code = 200
    /\ resp.body.mode = "multi"
    /\ calls[3].sent = playlist_uris

\* the second search was issued: the third call, on "<query> mix"
SecondSearch ==
    /\ Len(calls) >= 3
    /\ calls[3].op = "search_track"
    /\ calls[3].q = query \o <<" ","m","i","x">>

\* the calls that are track searches
TrackSearches == {i \in 1..Len(calls) : calls[i].op = "search_track"}

\* the candidate pool names two or more distinct artists
PoolIsDiverse ==
    Cardinality({a \in UNION {{t.artists[i] : i \in 1..Len(t.artists)} :
                                t \in {results[j] : j \in 1..Len(results)}} :
                   TRUE}) >= 2

\* the uri of every track of the pool, in pool order
PoolUris == [i \in 1..Len(results) |-> results[i].uri]

\* the uris of the pool's tracks that carry one, in pool order
PoolUrisPresent == SelectSeq(PoolUris, LAMBDA u : u # "None")

\* C26 but for the queue: the second search is issued exactly when the
\* lookup was attempted, found nothing and the request is not flagged; a
\* widened pool of two or more artists is played by multi playback with
\* `queue`, any other falls through to the artist / track rules; a flagged
\* request makes no second search and is not played for its diversity.
WidenThenDiverse(queue) ==
    (Resolved /\ ~QueryNamesConnected /\ Searched /\ found # <<>>)
    => /\ TrackSearches \subseteq {1, 3}
       /\ 3 \in TrackSearches => SecondSearch
       /\ SecondSearch
          => LookedUp /\ playlist_uris = <<>> /\ ~MoodFlagged
       /\ (pc \in {"dispatch", "done"} /\ LookedUp /\ playlist_uris = <<>>
             /\ ~MoodFlagged)
          => SecondSearch
       /\ (pc = "done" /\ SecondSearch /\ calls[3].ok)
          => /\ Len(calls) = 4
             /\ is_diverse = PoolIsDiverse
             /\ IF PoolIsDiverse
                THEN /\ calls[4].op = "play_multi_track"
                     /\ IF calls[4].ok
                        THEN /\ calls[4].sent = queue
                             /\ resp.code = 200
                             /\ resp.body.mode = "multi"
                        ELSE resp.code = 400
                ELSE /\ calls[4].op = IF TopArtistNamed /\ ~TopTitleNamed
                                      THEN "play_artist" ELSE "play_track"
                     /\ calls[4].ok
                        => /\ resp.code = 200
                           /\ resp.body.mode \in {"artist", "track"}
       /\ MoodFlagged
          => /\ ~is_diverse
             /\ (pc = "done" /\ resp.code = 200 /\ resp.body.mode = "multi")
                => playlist_uris # <<>>

DistinctIds(tracks) ==
    \A i, j \in 1..Len(tracks) : i # j => tracks[i].id # tracks[j].id

\* C27: at every point of a /play dispatch, and so in the queue handed to
\* multi playback after widening, the candidate pool holds no two tracks
\* with the same id, whatever the two catalog searches return.
C27_PoolHasDistinctIds ==
    (Resolved /\ Searched) => DistinctIds(results)

\* a catalog call or a playback call of the request raised
SomeCallFaulted == \E i \in 1..Len(calls) : ~calls[i].ok

\* C28: a /play request one of whose catalog calls (first search, playlist
\* lookup, second search) or playback calls raised ends with a failure
\* that carries the upstream message, never with status playing.
C28_FaultsFailTheRequest ==
    (pc = "done" /\ Resolved /\ SomeCallFaulted)
    => /\ resp.code # 200
       /\ "detail" \in DOMAIN resp

\* the request was dispatched to artist playback
ArtistDispatched ==
    /\ pc = "done"
    /\ Resolved
    /\ calls # <<>>
    /\ calls[Len(calls)].op = "play_artist"

\* the first-listed artist of the track, as the catalog returned it
PrimaryArtist(t) == (CHOOSE r \in RawTracks : r.id = t.id).artists[1]

\* C29: in artist mode the playback context passed to the transport is the
\* catalog reference of the top-ranked track's first-listed artist, the
\* artist the response names, for every track shape the catalog returns;
\* when that artist has no reference the request fails and no playback is
\* started.
C29_ArtistContextIsPrimaryArtist ==
    ArtistDispatched
    => LET primary == PrimaryArtist(results[1])
           call    == calls[Len(calls)]
       IN  IF primary.uri = "None"
           THEN /\ ~call.ok
                /\ call.sent = <<>>
                /\ resp.code = 400
           ELSE /\ call.sent \in {<<>>, <<primary.uri>>}
                /\ call.ok => /\ call.sent = <<primary.uri>>
                              /\ resp.code = 200
                              /\ resp.body.mode = "artist"
                              /\ resp.body.artist = primary.name

\* what track mode does with the top-ranked track when the similar-track
\* lookup gives `recs` and no playback call faults
TrackModeOutcome(recs) == DispatchOutcome(intent, "none", recs, TRUE)

\* the queue starts with the requested track's uri, which is nowhere else
\* in it, and goes on with uris the similar-track lookup returned
RequestedTrackFirst(sent, track, recs) ==
    /\ sent # <<>>
    /\ sent[1] = track.uri
    /\ \A i \in 2..Len(sent) :
        /\ sent[i] # track.uri
        /\ ~recs.fault
        /\ \E k \in 1..Len(recs.items) : sent[i] = recs.items[k]
    /\ recs.fault => sent = <<track.uri>>

\* C30: in track mode the queue handed to the transport has the requested
\* track's uri at position 0 and nowhere else, followed by similar-track
\* uris (as many as the lookup, asked for 30, returned); if the lookup
\* fails the queue is the requested track alone and playback still
\* starts; shuffle is switched off after playback starts.
C30_TrackModeQueue ==
    (pc = "dispatch" /\ Resolved)
    => \A recs \in RecOutcomes :
        LET out == TrackModeOutcome(recs)
        IN  out.call.op = "play_track"
            => /\ out.call.ok
               /\ RequestedTrackFirst(out.call.sent, results[1], recs)
               /\ out.call.shuffled = "off"
               /\ out.resp.code = 200
               /\ out.resp.body.mode = "track"
               /\ out.resp.body.shuffle = FALSE

-----------------------------------------------------------------------------
(* Claims about the intent's source and the request history, checked under *)
(* Spec.                                                                   *)

Sources == {"openai", "fallback"}

\* the same intent as produced by the path s
WithSource(int, s) == SetItem(int, "source", s)

\* two history tables differ at most in the intent_source of their rows
SameButSource(a, b) ==
    /\ Len(a) = Len(b)
    /\ \A i \in 1..Len(a) :
        [a[i] EXCEPT !.intent_source = "any"]
            = [b[i] EXCEPT !.intent_source = "any"]

\* C13: two /play runs whose intents agree on action, query and extras and
\* differ only in source, with the same collaborator responses, have the
\* same search term, take the same steps, make the same transport call and
\* return the same response; source shows only in the persisted row.
C13_SourceNeverAltersDispatch ==
    (Resolved /\ (calls # <<>> \/ pc \in {"connected", "playlist", "search"}))
    => \A s \in Sources :
        LET twin == WithSource(intent, s)
            last == IF calls = <<>> THEN "none" ELSE calls[Len(calls)].op
        IN  /\ _resolve_play_query(twin, message) = query
            \* after the first search
            /\ (pc = "lookup" \/ (pc = "dispatch" /\ Len(calls) = 1))
                => NeedsLookup(results[1], query, twin) = (pc = "lookup")
            \* after the playlist lookup
            /\ (pc = "widen" \/ (pc = "dispatch" /\ last = "search_playlists"))
                => NeedsWiden(playlist_uris, twin) = (pc = "widen")
            /\ pc = "playlist"
                => \A fault \in TransportFaults, db_ok \in BOOLEAN :
                    LET a == PlaylistOutcome(intent, fault, db_ok)
                        b == PlaylistOutcome(twin, fault, db_ok)
                    IN  /\ a.call = b.call
                        /\ a.resp = b.resp
                        /\ SameButSource(a.rows, b.rows)
            /\ pc = "dispatch"
                => \A fault \in TransportFaults, recs \in RecOutcomes,
                      db_ok \in BOOLEAN :
                    LET a == DispatchOutcome(intent, fault, recs, db_ok)
                        b == DispatchOutcome(twin, fault, recs, db_ok)
                    IN  /\ a.call = b.call
                        /\ a.resp = b.resp
                        /\ SameButSource(a.rows, b.rows)

\* a /play run on a fallback intent started playback and wrote its row,
\* and the primary path can produce the same intent but for the source
C13_Witness ==
    /\ pc = "done"
    /\ Resolved
    /\ intent.source = "fallback"
    /\ calls # <<>>
    /\ resp.code = 200
    /\ mood_requests # <<>>
    /\ mood_requests[1].intent_source = "fallback"
    /\ \E o \in PlayLLMOutcomes :
        LET r == parse(message, o)
        IN  ~r.raised /\ r.value = WithSource(intent, "openai")

\* C14: a failure of the history write never changes the result of the
\* request it accompanies: for /play (track, artist, multi and playlist
\* modes) and /ask the response with a failing write equals the response
\* with a successful one, and so does the playback call.
C14_HistoryWriteIsBestEffort ==
    /\ pc = "dispatch"
        => \A fault \in TransportFaults, recs \in RecOutcomes :
            LET a == DispatchOutcome(intent, fault, recs, TRUE)
                b == DispatchOutcome(intent, fault, recs, FALSE)
            IN  a.resp = b.resp /\ a.call = b.call
    /\ pc = "playlist"
        => \A fault \in TransportFaults :
            LET a == PlaylistOutcome(intent, fault, TRUE)
                b == PlaylistOutcome(intent, fault, FALSE)
            IN  a.resp = b.resp /\ a.call = b.call
    /\ pc = "idle"
        => \A msg \in PlayMessages, o \in PlayLLMOutcomes :
            AskOutcome(msg, parse(msg, o), TRUE).resp
                = AskOutcome(msg, parse(msg, o), FALSE).resp

\* playback started, the history write failed, and the response still
\* reports the playback
C14_Witness ==
    /\ pc = "done"
    /\ calls # <<>>
    /\ calls[Len(calls)].op \in TransportOps
    /\ calls[Len(calls)].ok
    /\ mood_requests = <<>>
    /\ resp.code = 200
    /\ resp.body.status = "playing"

-----------------------------------------------------------------------------
(* Claims about the resolver, checked under SpecResolve.                   *)

\* the tool call carried arguments with the structure the schema requires
HasIntentStructure(o) ==
    /\ o.kind = "tool_calls"
    /\ o.json = "object"
    /\ o.value \in IntentObjects

PrimaryUnknown == SetItem(UnknownIntent, "source", "openai")

\* C8: when the primary call returns no tool invocation, or tool arguments
\* that do not parse as the expected intent structure, resolve returns
\* {action: unknown, query: "", extras: {}} with source primary; it does
\* not raise and does not take the fallback path.
C8_UnparsableYieldsUnknown ==
    (/\ pc = "done"
     /\ llm.kind \in {"no_tool_calls", "tool_calls"}
     /\ ~HasIntentStructure(llm))
    => (resp.code = 200 /\ resp.body = PrimaryUnknown)

\* C9: every transport or service fault of the primary call (quota,
\* availability, connection) makes resolve return the fallback path's
\* intent with source fallback; every other exception propagates and no
\* fallback intent is produced.
C9_FaultsDegradeToFallback ==
    /\ (pc = "done" /\ llm.kind \in {"APIStatusError", "APIConnectionError"})
        => /\ resp.code = 200
           /\ resp.body = SetItem(_parse_with_keywords(message),
                                  "source", "fallback")
    /\ (pc = "done" /\ (llm.kind = "Exception"
                        \/ (llm.kind = "tool_calls" /\ llm.json = "array")))
        => resp.code = 500

\* the utterance opens with the action-verb phrase w
LeadsWith(text, w) ==
    MatchesAt(text, 1, w) /\ WordBoundary(text, Len(w))

\* C10: for every utterance resolved by the fallback path the action is one
\* of the six enumerated actions and the returned query is never the
\* leading action-verb phrase of the utterance, the utterances that consist
\* of the verb phrase alone included.
C10_FallbackQueryNeverVerb ==
    (pc = "done" /\ resp.code = 200 /\ resp.body.source = "fallback")
    => /\ resp.body.action \in Actions
       /\ \A w \in STRIP_PREFIX :
            LeadsWith(Strip(message), w)
            => resp.body.query # SubSeq(Strip(message), 1, Len(w))

\* the trimmed utterance holds a trigger of the family
Triggers(alts) == SearchWord(alts, Strip(message))

\* the utterance was resolved by the fallback path
FallbackResolved ==
    pc = "done" /\ resp.code = 200 /\ resp.body.source = "fallback"

\* C11: the fallback path classifies by the first matching rule in the order
\* identity, device, recommendation, search, play, default: an identity
\* trigger yields get_current_user with query "" whatever else the utterance
\* holds, a device trigger without an identity trigger yields list_devices,
\* and an utterance with no trigger yields play_music whose query is the
\* full trimmed utterance.
C11_FallbackRuleOrder ==
    FallbackResolved =>
        LET b == resp.body
        IN  IF Triggers(USER_TRIGGERS)
            THEN b.action = "get_current_user" /\ b.query = <<>>
            ELSE IF Triggers(DEVICES_TRIGGERS)
            THEN b.action = "list_devices"
            ELSE IF Triggers(RECOMMEND_TRIGGERS)
            THEN b.action = "get_recommendations"
            ELSE IF Triggers(SEARCH_TRIGGERS)
            THEN b.action = "search_music"
            ELSE IF Triggers(PLAY_TRIGGERS)
            THEN b.action = "play_music"
            ELSE b.action = "play_music" /\ b.query = Strip(message)

\* an utterance with an identity trigger and a device, a search and a play
\* trigger besides was resolved by the fallback path
C11_Witness ==
    /\ FallbackResolved
    /\ Triggers(USER_TRIGGERS)
    /\ Triggers(DEVICES_TRIGGERS) \/ Triggers(SEARCH_TRIGGERS)
       \/ Triggers(PLAY_TRIGGERS)
    /\ resp.body.action = "get_current_user"

\* C12: every utterance resolved by the fallback path that holds a
\* mood/genre token gets extras.is_mood_or_genre = true, whichever of the
\* six actions it resolves to.
C12_MoodFlagOnEveryAction ==
    (FallbackResolved /\ Triggers(MOOD_TOKENS))
    => /\ "is_mood_or_genre" \in DOMAIN resp.body.extras
       /\ resp.body.extras.is_mood_or_genre

-----------------------------------------------------------------------------
(* Claims about the Recommender, checked under SpecRecommender.            *)

IsBuild == rec_call.op = "build_profile"
IsRank  == rec_call.op = "rank_candidates"

\* C15: build_profile with an empty sequence raises a validation fault, and
\* rank_candidates before any build_profile has returned raises a state
\* fault for every candidate sequence and every top_n; neither failing call
\* changes the Recommender.
C15_MisuseRaisesAndKeepsState ==
    [][/\ (IsBuild' /\ rec_call'.top_tracks = <<>>)
            => /\ rec_call'.out = Raised("ValueError")
               /\ recommender' = recommender
       /\ (IsRank' /\ built_from = <<>>)
            => /\ rec_call'.out = Raised("RuntimeError")
               /\ recommender' = recommender
      ]_vars

\* rank_candidates was called with the empty sequence before any profile
\* was built, and raised
C15_Witness ==
    /\ IsRank
    /\ built_from = <<>>
    /\ rec_call.candidates = <<>>
    /\ rec_call.out.raised

\* C16: once a profile has been built, rank_candidates with an empty
\* candidate sequence returns an empty sequence and does not raise, for
\* every top_n.
C16_EmptyCandidatesGiveEmpty ==
    (IsRank /\ built_from # <<>> /\ rec_call.candidates = <<>>)
    => rec_call.out = Returned(<<>>)

\* the empty sequence was ranked against a built profile with a negative
\* top_n, and the call returned
C16_Witness ==
    /\ IsRank
    /\ built_from # <<>>
    /\ rec_call.candidates = <<>>
    /\ rec_call.top_n < 0
    /\ ~rec_call.out.raised

\* the exact cosine of a candidate against the stored profile
CosineOf(t) == Cosine(recommender.profile, CandidateRow(recommender, t))

\* the positions of the candidates, in an order that gives the result
IsPlacement(f, cands, out) ==
    /\ \A i \in 1..Len(out) : out[i].track = cands[f[i]]
    /\ \A i, j \in 1..Len(out) : i # j => f[i] # f[j]
    \* descending, ties in input order
    /\ \A i, j \in 1..Len(out) :
        i < j => /\ CosineGeq(CosineOf(cands[f[i]]), CosineOf(cands[f[j]]))
                 /\ CosineGeq(CosineOf(cands[f[j]]), CosineOf(cands[f[i]]))
                      => f[i] < f[j]
    \* nothing left out is strictly more similar than something returned
    /\ \A k \in 1..Len(cands) :
        (\A i \in 1..Len(out) : f[i] # k)
        => \A i \in 1..Len(out) :
             CosineGeq(CosineOf(cands[f[i]]), CosineOf(cands[k]))

\* C17: for every non-empty candidate sequence and every integer top_n,
\* rank_candidates returns at most top_n entries, all drawn from the
\* candidates, in descending order of similarity with ties in input order,
\* and no candidate left out is strictly more similar than one returned.
C17_RankReturnsTopN ==
    (IsRank /\ rec_call.candidates # <<>> /\ ~rec_call.out.raised)
    => LET out   == rec_call.out.value
           cands == rec_call.candidates
       IN  /\ Len(out) <= (IF rec_call.top_n > 0 THEN rec_call.top_n ELSE 0)
           /\ \E f \in [1..Len(out) -> 1..Len(cands)] :
                IsPlacement(f, cands, out)

\* C18: rank_candidates leaves the Recommender as it was, and a call that
\* repeats the call before it returns the same ordering and scores.
C18_RankIsRepeatable ==
    [][IsRank'
        => /\ recommender' = recommender
           /\ rec_call'.repeated => rec_call'.out = rec_call.out
      ]_vars

\* the same two candidates were ranked twice in a row and came back
C18_Witness ==
    /\ IsRank
    /\ rec_call.repeated
    /\ ~rec_call.out.raised
    /\ Len(rec_call.out.value) = 2

\* a Recommender on which only build_profile(top_tracks) was called
Fresh(top_tracks) ==
    build_profile_of(Recommender__init__, top_tracks, FALSE).self

\* C19: after any sequence of build_profile calls, what rank_candidates
\* returns is what it returns on a fresh Recommender on which only the last
\* build_profile that returned was called.
C19_LastBuildDecidesRank ==
    (IsRank /\ built_from # <<>> /\ ~rec_call.out.raised)
    => rec_call.out = rank_candidates_of(Fresh(built_from),
                                         rec_call.candidates,
                                         rec_call.top_n).out

\* the score is below 0 and stays so when rounded to 4 places: the cosine
\* is negative and its square at least 0.00005 squared
RoundsBelowZero(score) ==
    score.sgn < 0 /\ score.den \div score.num < 400000000

\* C20: every similarity rank_candidates returns lies in [0, 1], for every
\* profile and every candidate, those whose duration or popularity lies
\* outside the range seen when the profile was built included.
C20_SimilarityInUnitRange ==
    (IsRank /\ ~rec_call.out.raised)
    => \A i \in 1..Len(rec_call.out.value) :
        LET score == rec_call.out.value[i].similarity_score
        IN  ~RoundsBelowZero(score) /\ score.num <= score.den

\* the one track came back with a similarity of exactly 1
OneTrackAtOne(out, t) ==
    out = Returned(<<[track |-> t,
                      similarity_score |-> [sgn |-> 1, num |-> 1, den |-> 1]]>>)

\* C21: for every one-element track sequence T, build_profile(T) followed
\* by rank_candidates(T) on a fresh Recommender returns that one track with
\* a similarity (close to) 1.0.  The Recommender is the one a fresh
\* Recommender becomes by build_profile(T); rank_candidates leaves it so.
C21_OneTrackRoundTrip ==
    (/\ IsRank
     /\ Len(rec_call.candidates) = 1
     /\ rec_call.top_n >= 1
     /\ recommender = Fresh(rec_call.candidates))
    => OneTrackAtOne(rec_call.out, rec_call.candidates[1])

-----------------------------------------------------------------------------
(* Claims about the voice client, checked under SpecVoice.                 *)

\* the call of record_until_silence has returned
Recorded == voice.pc = "done"

\* some chunk read had an RMS above the threshold
Heard ==
    \E i \in 1..Len(voice.read) : RmsAbove(voice.read[i], voice.threshold)

\* C22: record_until_silence returns the output path and writes the WAV
\* file if and only if some chunk read before the cap had an RMS above the
\* threshold; when every chunk up to the cap is at or below the threshold
\* it returns the empty string and writes no file; in both cases at most
\* max_chunks chunks are read.
C22_RecordReturnsIffSpeech ==
    /\ Len(voice.read) <= max_chunks
    /\ voice.total_chunks = Len(voice.read)
    /\ ~Recorded => ~voice.wav.exists
    /\ Recorded =>
        /\ Heard <=> (voice.returned = "output" /\ voice.wav.exists)
        /\ ~Heard => /\ voice.returned = ""
                     /\ ~voice.wav.exists
                     /\ Len(voice.read) = max_chunks

\* speech began after a quiet chunk and the call returned on silence,
\* before the cap, with the file written
C22_Witness ==
    /\ Recorded
    /\ voice.onset > 1
    /\ Len(voice.read) < max_chunks
    /\ voice.returned = "output"
    /\ voice.wav.exists

\* C23: the PREROLL_CHUNKS chunks read immediately before the onset chunk
\* are all prepended, in order, to the recording: the written frames are
\* those chunks followed by every chunk from the onset chunk to the last
\* one read.
C23_PrerollPrecedesOnset ==
    (Recorded /\ voice.wav.exists /\ voice.onset > PREROLL_CHUNKS)
    => voice.wav.frames
         = SubSeq(voice.read, voice.onset - PREROLL_CHUNKS, Len(voice.read))

====
